---- MODULE Spec2Model ----
(***************************************************************************)
(* devports: the port allocation engine (port-manager.ts), the lock-scoped *)
(* registry mutator (services/lock-manager.ts), the registry store         *)
(* (config.ts), the range scanner (port-utils.ts) and the template         *)
(* renderer (render.ts).                                                   *)
(*                                                                         *)
(* Every invocation is an independent process running one call at a time.  *)
(* A call is cut into steps where other processes can observe or disturb   *)
(* it: the pre-lock loadRegistry (existsSync, then writeFileSync of the     *)
(* default document), the lock acquisition with the fresh load, and the     *)
(* callback with the save and the release of the lock.  Nothing another     *)
(* process does depends on how far a lock holder's callback has got, so the *)
(* callback, the save and the release are one step.                         *)
(*                                                                         *)
(* Records carry no timestamp (allocatedAt, reservedAt): no operation reads *)
(* one, and whether a call wrote the document is kept in its outcome.       *)
(***************************************************************************)
EXTENDS Integers, Sequences, FiniteSets, TLC

(* ------------------------------ bounds --------------------------------- *)

\* Number of concurrently running processes.
NumProcs == 2

\* Number of ports in the range of the type "api".
RangeLen == 2

\* Longest template, in pieces (placeholders, quotes, markers, newlines).
MaxPieces == 4

\* Longest template made of quotes, backslashes, markers and a placeholder.
MaxTokens == 6

Procs == 1..NumProcs

Projects == {"p1", "p2"}

Services == {"s1", "s2"}

\* Reasons a caller gives to reserve.
Reasons == {"r1"}

\* A type name that is not a key of config.ranges.
BogusType == "bogus"

(* ------------------------------ config --------------------------------- *)

\* port-utils.ts: findAvailablePort returns null (and allocatePort tests !port).
NoPort == 0

\* config.ranges: two types whose ranges overlap in one port (a user-edited
\* config.json may hold any ranges); "custom" contains the default reservation,
\* as 8002-8999 contains 8080.
Ranges ==
  [api    |-> [start |-> 1, end |-> RangeLen],
   custom |-> [start |-> RangeLen, end |-> RangeLen + 1]]

Types == DOMAIN Ranges

RangePorts(type) == Ranges[type].start .. Ranges[type].end

Ports == 1..(RangeLen + 1)

\* The port DEFAULT_REGISTRY reserves (8080), inside the "custom" range.
DefaultReservedPort == RangeLen + 1

DefaultReason == "Common development server port"

\* The value of a missing document (existsSync(registryPath) is false).
NoFile == [allocations |-> <<>>, reservations |-> <<>>, exists |-> FALSE]

DEFAULT_REGISTRY ==
  [allocations |-> <<>>,
   reservations |-> << [port |-> DefaultReservedPort, reason |-> DefaultReason] >>,
   exists |-> TRUE]

(* ------------------------------ state ---------------------------------- *)

VARIABLES
  file,    \* the registry document on disk (ports.json)
  lock,    \* the process holding the proper-lockfile lock, or NoHolder
  pc,      \* pc[p]: where process p is in its call
  op,      \* op[p]: the arguments of p's call, once its callback has read them
  reg,     \* reg[p]: the registry object p loaded under the lock
  last,    \* the call that has just finished, with what it returned
  stale,   \* the lock's mtime is older than the staleness threshold
  content, \* the template text handed to the renderer, as tokens
  ext,     \* the extension of the template's file name
  ports,   \* the port map handed to processTemplate
  output,  \* what the renderer returned
  projName, \* the project name handed to processTemplate
  scan,    \* a call of findAvailablePort: its arguments, the probe, its result
  render   \* render[p]: the renderFile call process p is running

\* The renderer's variables.
renderVars == <<content, ext, ports, output, projName>>

\* What no call of the port manager touches.
otherVars == <<renderVars, scan, render>>

vars == <<file, lock, pc, op, reg, last, stale, content, ext, ports, output,
          projName, scan, render>>

NoHolder == 0

NoOp == [name |-> "none", project |-> "", service |-> "", type |-> "",
         port |-> NoPort, reason |-> "", all |-> FALSE]

OpAllocate(name, project, service, type) ==
  [name |-> name, project |-> project, service |-> service, type |-> type,
   port |-> NoPort, reason |-> "", all |-> FALSE]

OpRelease(project, service, all) ==
  [name |-> "release", project |-> project, service |-> service, type |-> "",
   port |-> NoPort, reason |-> "", all |-> all]

OpPort(name, port, reason) ==
  [name |-> name, project |-> "", service |-> "", type |-> "",
   port |-> port, reason |-> reason, all |-> FALSE]

\* What a finished call leaves behind: its arguments, whether it returned
\* ("ok") or which error it threw, the returned port or count (a returned
\* boolean is 1 or 0), the names the error message carries, whether
\* saveRegistry ran, whether the port-in-use warning was printed, and the ports
\* of the scanned range that were in use (what the probe would answer).
Outcome(o, kind, value, info, saved, warned, liveSet) ==
  [op |-> o, kind |-> kind, value |-> value, info |-> info, saved |-> saved,
   warned |-> warned, live |-> liveSet]

NoOutcome == Outcome(NoOp, "none", NoPort, <<>>, FALSE, FALSE, {})

NoRegistry == [allocations |-> <<>>, reservations |-> <<>>, exists |-> FALSE]

\* What the renderer hands back: the substituted text with the overwrites
\* made on the way, or the detected services.
NoOutput == [op |-> "none", text |-> <<>>, edits |-> <<>>, services |-> <<>>]

\* A port map without entries.
NoPorts == [name \in {} |-> NoPort]

\* No call of findAvailablePort has been made.
NoScan == [start |-> 0, end |-> 0, excluded |-> {}, live |-> {},
           called |-> FALSE, result |-> NoPort, probed |-> {}]

\* No renderFile call is running: no project, no services left to serve, no
\* port obtained (allocatedPorts), no allocation created.
NoRender == [project |-> "", queue |-> <<>>, allocatedPorts |-> <<>>,
             created |-> {}]

(* --------------------------- pure helpers ------------------------------ *)

Min(S) == CHOOSE x \in S : \A y \in S : x <= y

\* Array.prototype.find as an index: the first matching element, or 0.
FirstOf(hits) == IF hits = {} THEN 0 ELSE Min(hits)

AllocPorts(r) == {r.allocations[i].port : i \in DOMAIN r.allocations}

ReservedPorts(r) == {r.reservations[i].port : i \in DOMAIN r.reservations}

\* Mutant: the excluded set leaves out the ports already allocated.
UsedPorts_ReservationsOnly(r) == ReservedPorts(r)

\* Mutant: the excluded set leaves out the reserved ports.
UsedPorts_AllocationsOnly(r) == AllocPorts(r)

\* new Set([...allocations ports, ...reservations ports])
UsedPorts(r) == AllocPorts(r) \cup ReservedPorts(r)

\* Mutant: the probe never finds a port in use.
checkPortInUse_Never(port, liveSet) == FALSE

\* port-utils.ts checkPortInUse: a TCP connect succeeds.
checkPortInUse(port, liveSet) == port \in liveSet

\* port-utils.ts findAvailablePort: ascending scan, skipping used ports and
\* ports the probe reports in use.
RECURSIVE ScanFrom(_, _, _, _)
ScanFrom(port, end, usedPorts, liveSet) ==
  IF port > end THEN NoPort
  ELSE IF port \in usedPorts THEN ScanFrom(port + 1, end, usedPorts, liveSet)
  ELSE IF ~checkPortInUse(port, liveSet) THEN port
  ELSE ScanFrom(port + 1, end, usedPorts, liveSet)

\* Mutant: the loop stops one port early (port < end).
findAvailablePort_StopsEarly(start, end, usedPorts, liveSet) ==
  ScanFrom(start, end - 1, usedPorts, liveSet)

\* Mutant: the loop runs one port past the range (port <= end + 1).
findAvailablePort_PastEnd(start, end, usedPorts, liveSet) ==
  ScanFrom(start, end + 1, usedPorts, liveSet)

findAvailablePort(start, end, usedPorts, liveSet) ==
  ScanFrom(start, end, usedPorts, liveSet)

\* The ports findAvailablePort hands to checkPortInUse during its scan.
RECURSIVE ProbedFrom(_, _, _, _)
ProbedFrom(port, end, usedPorts, liveSet) ==
  IF port > end THEN {}
  ELSE IF port \in usedPorts THEN ProbedFrom(port + 1, end, usedPorts, liveSet)
  ELSE IF ~checkPortInUse(port, liveSet) THEN {port}
  ELSE {port} \cup ProbedFrom(port + 1, end, usedPorts, liveSet)

(* --------------------------- registry store ---------------------------- *)

\* config.ts loadRegistry: a missing file is created with DEFAULT_REGISTRY and
\* that object is returned; otherwise the parsed document.
loadRegistry(f) == IF f.exists THEN f ELSE DEFAULT_REGISTRY

\* config.ts saveRegistry: writeFileSync of the whole document.
saveRegistry(r) == [r EXCEPT !.exists = TRUE]

\* Mutant: the duplicate lookup never finds an allocation.
ExistingIndex_Never(r, project, service) == 0

\* Mutant: the duplicate lookup compares the project only.
ExistingIndex_ByProject(r, project, service) ==
  FirstOf({i \in DOMAIN r.allocations : r.allocations[i].project = project})

\* The allocation of (project, service) that allocations.find returns, as an
\* index (0: undefined).
ExistingIndex(r, project, service) ==
  FirstOf({i \in DOMAIN r.allocations :
             /\ r.allocations[i].project = project
             /\ r.allocations[i].service = service})

\* Mutant: reservePort does not look at the allocations.
AllocatedIndex_Never(r, port) == 0

\* reservePort: registry.allocations.find((a) => a.port === port), as an index.
AllocatedIndex(r, port) ==
  FirstOf({i \in DOMAIN r.allocations : r.allocations[i].port = port})

\* Mutant: reservePort does not look at the reservations.
ReservedIndex_Never(r, port) == 0

\* reservePort: registry.reservations.find((r) => r.port === port), as an index.
ReservedIndex(r, port) ==
  FirstOf({i \in DOMAIN r.reservations : r.reservations[i].port = port})

\* Mutant: getStatus looks for the next port among the ports that are not
\* allocated, reserved or not.
getStatus_AllocationsOnly(f) ==
  LET registry == loadRegistry(f)
  IN [t \in Types |->
        [available |-> Cardinality(RangePorts(t))
                         - Cardinality({i \in DOMAIN registry.allocations :
                                          registry.allocations[i].type = t}),
         used |-> Cardinality({i \in DOMAIN registry.allocations :
                                 registry.allocations[i].type = t}),
         next |-> FirstOf({port \in RangePorts(t) : port \notin AllocPorts(registry)})]]

\* port-manager.ts getStatus().types on the document f: per type the size of
\* its range less its allocations, the number of its allocations, and the
\* first port of the range that is neither allocated nor reserved (null: 0).
\* No probe is made and no lock is taken.
getStatus(f) ==
  LET registry == loadRegistry(f)
      usedPorts == UsedPorts(registry)
  IN [t \in Types |->
        [available |-> Cardinality(RangePorts(t))
                         - Cardinality({i \in DOMAIN registry.allocations :
                                          registry.allocations[i].type = t}),
         used |-> Cardinality({i \in DOMAIN registry.allocations :
                                 registry.allocations[i].type = t}),
         next |-> FirstOf({port \in RangePorts(t) : port \notin usedPorts})]]

(* ------------------------------- Init ---------------------------------- *)

Idle ==
  /\ lock = NoHolder
  /\ pc = [p \in Procs |-> "idle"]
  /\ op = [p \in Procs |-> NoOp]
  /\ reg = [p \in Procs |-> NoRegistry]
  /\ last = NoOutcome
  /\ stale = FALSE
  /\ render = [p \in Procs |-> NoRender]

\* No template is being rendered.
NoTemplate ==
  /\ content = <<>>
  /\ ext = ""
  /\ ports = NoPorts
  /\ output = NoOutput
  /\ projName = <<>>

\* The registry document exists and holds DEFAULT_REGISTRY; no call is running.
Init == file = DEFAULT_REGISTRY /\ Idle /\ NoTemplate /\ scan = NoScan

\* No registry document yet: the state before the first call ever made.
InitFresh == file = NoFile /\ Idle /\ NoTemplate /\ scan = NoScan

(* ------------------------------ actions -------------------------------- *)

\* A call ends: the process is idle again and `last` tells what it returned.
Finish(p, outcome) ==
  /\ pc' = [pc EXCEPT ![p] = "idle"]
  /\ op' = [op EXCEPT ![p] = NoOp]
  /\ reg' = [reg EXCEPT ![p] = NoRegistry]
  /\ last' = outcome
  /\ UNCHANGED <<stale, otherVars>>

\* Mutant: the callback had pushed its record before it threw and the save
\* runs in the finally block.
Throw_SavesPartial(p, o, kind, value, info, liveSet) ==
  /\ Finish(p, Outcome(o, kind, value, info, FALSE, FALSE, liveSet))
  /\ lock' = NoHolder
  /\ file' = saveRegistry([reg[p] EXCEPT !.allocations =
                Append(@, [port |-> value, project |-> o.project,
                           service |-> o.service, type |-> o.type])])

\* Mutant: no finally block, an exception leaves the lock held.
Throw_KeepsLock(p, o, kind, value, info, liveSet) ==
  /\ Finish(p, Outcome(o, kind, value, info, FALSE, FALSE, liveSet))
  /\ UNCHANGED <<file, lock>>

\* The callback threw: withRegistryLock skips saveRegistry and its finally
\* releases the lock.
Throw(p, o, kind, value, info, liveSet) ==
  /\ Finish(p, Outcome(o, kind, value, info, FALSE, FALSE, liveSet))
  /\ lock' = NoHolder
  /\ UNCHANGED file

\* The callback of withRegistryLock returned: saveRegistry(registry), then the
\* lock is released.
SaveAndReturn(p, o, r, value, warned, liveSet) ==
  /\ Finish(p, Outcome(o, "ok", value, <<>>, TRUE, warned, liveSet))
  /\ file' = saveRegistry(r)
  /\ lock' = NoHolder

\* Mutant: withRegistryLockConditional saves whatever shouldSave says.
ReturnConditional_AlwaysSaves(p, o, r, value, shouldSave) ==
  /\ Finish(p, Outcome(o, "ok", value, <<>>, TRUE, FALSE, {}))
  /\ file' = saveRegistry(r)
  /\ lock' = NoHolder

\* withRegistryLockConditional: saveRegistry only if shouldSave !== false.
ReturnConditional(p, o, r, value, shouldSave) ==
  /\ Finish(p, Outcome(o, "ok", value, <<>>, shouldSave, FALSE, {}))
  /\ file' = IF shouldSave THEN saveRegistry(r) ELSE file
  /\ lock' = NoHolder

\* The caller has taken the outcome of the call that just finished.
Observe ==
  /\ last # NoOutcome
  /\ last' = NoOutcome
  /\ UNCHANGED <<file, lock, pc, op, reg, stale, otherVars>>

\* allocatePort with a type that config.ranges does not hold throws before any
\* lock is taken.
AllocateUnknownType(p) ==
  /\ last = NoOutcome
  /\ pc[p] = "idle"
  /\ \E project \in Projects, service \in Services :
       Finish(p, Outcome(OpAllocate("allocate", project, service, BogusType),
                         "UnknownType", NoPort, <<>>, FALSE, FALSE, {}))
  /\ UNCHANGED <<file, lock>>

\* A process enters withRegistryLock / withRegistryLockConditional: loadConfig,
\* then "Ensure registry exists before locking", loadRegistry's existsSync.
Ensure(p) ==
  /\ last = NoOutcome
  /\ pc[p] \in {"idle", "ensure"}
  /\ pc' = [pc EXCEPT ![p] = IF file.exists THEN "lock" ELSE "create"]
  /\ UNCHANGED <<file, lock, op, reg, last, stale, otherVars>>

\* loadRegistry found no file: writeFileSync(registryPath, DEFAULT_REGISTRY),
\* outside the lock.
Create(p) ==
  /\ last = NoOutcome
  /\ pc[p] = "create"
  /\ file' = DEFAULT_REGISTRY
  /\ pc' = [pc EXCEPT ![p] = "lock"]
  /\ UNCHANGED <<lock, op, reg, last, stale, otherVars>>

\* lockfile.lock succeeds, then the fresh loadRegistry under the lock.
Acquire(p) ==
  /\ last = NoOutcome
  /\ pc[p] = "lock"
  /\ lock = NoHolder
  /\ lock' = p
  /\ reg' = [reg EXCEPT ![p] = loadRegistry(file)]
  /\ file' = loadRegistry(file)
  /\ pc' = [pc EXCEPT ![p] = "locked"]
  /\ UNCHANGED <<op, last, stale, otherVars>>

\* lockfile.lock gives up after its retries while another process holds the
\* lock and keeps it fresh: the call rejects.
LockTimeout(p) ==
  /\ last = NoOutcome
  /\ pc[p] = "lock"
  /\ lock # NoHolder
  /\ ~stale
  /\ Finish(p, Outcome(op[p], "LockFailed", NoPort, <<>>, FALSE, FALSE, {}))
  /\ UNCHANGED <<file, lock>>

\* The process dies while it holds the lock (killed before the finally block
\* and before proper-lockfile's exit hook): the lock directory stays, nothing
\* refreshes its mtime any more.
Crash(p) ==
  /\ last = NoOutcome
  /\ pc[p] = "locked"
  /\ pc' = [pc EXCEPT ![p] = "crashed"]
  /\ UNCHANGED <<file, lock, op, reg, last, stale, otherVars>>

\* The staleness threshold (DEFAULT_LOCK_OPTIONS.stale) passes on a lock whose
\* holder is dead.
Expire ==
  /\ last = NoOutcome
  /\ lock # NoHolder
  /\ pc[lock] = "crashed"
  /\ ~stale
  /\ stale' = TRUE
  /\ UNCHANGED <<file, lock, pc, op, reg, last, otherVars>>

\* Mutant: lockfile.lock is called without a staleness threshold and never
\* takes over a lock that is held.
Reclaim_Never(p) ==
  /\ pc[p] = "lock"
  /\ lock = NoHolder
  /\ stale
  /\ UNCHANGED vars

\* lockfile.lock finds the lock held but stale: it removes the lock and takes
\* it, then the fresh loadRegistry under the lock.
Reclaim(p) ==
  /\ last = NoOutcome
  /\ pc[p] = "lock"
  /\ lock # NoHolder
  /\ stale
  /\ lock' = p
  /\ stale' = FALSE
  /\ reg' = [reg EXCEPT ![p] = loadRegistry(file)]
  /\ file' = loadRegistry(file)
  /\ pc' = [pc EXCEPT ![p] = "locked"]
  /\ UNCHANGED <<op, last, otherVars>>

(* ---------------------------- port-utils.ts ---------------------------- *)

\* Arguments for findAvailablePort: any range over the ports, empty ranges
\* (start > end) included, any set of used ports, any set of ports in use.
InitScan ==
  /\ file = DEFAULT_REGISTRY
  /\ Idle
  /\ NoTemplate
  /\ \E start \in Ports, end \in 0..(RangeLen + 1) :
     \E usedPorts \in SUBSET Ports, liveSet \in SUBSET Ports :
       scan = [NoScan EXCEPT !.start = start, !.end = end,
                             !.excluded = usedPorts, !.live = liveSet]

\* await findAvailablePort(start, end, usedPorts)
FindAvailable ==
  /\ ~scan.called
  /\ scan' = [scan EXCEPT
       !.called = TRUE,
       !.result = findAvailablePort(scan.start, scan.end, scan.excluded, scan.live),
       !.probed = ProbedFrom(scan.start, scan.end, scan.excluded, scan.live)]
  /\ UNCHANGED <<file, lock, pc, op, reg, last, stale, renderVars, render>>

(* ---------------------- port-manager.ts callbacks ----------------------- *)

\* The registry after allocatePort's push of the new allocation.
PushAllocation(r, port, o) ==
  [r EXCEPT !.allocations =
     Append(@, [port |-> port, project |-> o.project, service |-> o.service,
                type |-> o.type])]

\* Mutant: allocatePort without its duplicate check.
AllocateBody_NoDuplicateCheck(p, o, liveSet, isInUse) ==
  LET r == reg[p]
      range == Ranges[o.type]
      port == findAvailablePort(range.start, range.end, UsedPorts(r), liveSet)
  IN IF port = NoPort
     THEN Throw(p, o, "NoAvailablePorts", NoPort, <<>>, liveSet)
     ELSE SaveAndReturn(p, o, PushAllocation(r, port, o), port, isInUse, liveSet)

\* allocatePort's callback for the call o, the probe answering liveSet to the
\* scan and isInUse to the second probe of the chosen port.
AllocateBody(p, o, liveSet, isInUse) ==
  LET r == reg[p]
      range == Ranges[o.type]
      existing == ExistingIndex(r, o.project, o.service)
      usedPorts == UsedPorts(r)
      port == findAvailablePort(range.start, range.end, usedPorts, liveSet)
  IN IF existing # 0
     THEN Throw(p, o, "AlreadyAllocated", r.allocations[existing].port,
                <<o.project, o.service>>, {})
     ELSE IF port = NoPort
     THEN Throw(p, o, "NoAvailablePorts", NoPort, <<>>, liveSet)
     ELSE SaveAndReturn(p, o, PushAllocation(r, port, o), port, isInUse, liveSet)

\* allocatePort called directly (its type is a configured one).
Allocate(p) ==
  /\ last = NoOutcome
  /\ pc[p] = "locked"
  /\ op[p] = NoOp
  /\ \E project \in Projects, service \in Services, type \in Types :
     \E liveSet \in SUBSET RangePorts(type), isInUse \in BOOLEAN :
       AllocateBody(p, OpAllocate("allocate", project, service, type),
                    liveSet, isInUse)

\* allocatePort entered from getOrAllocatePort.
AllocateAfterGet(p) ==
  /\ last = NoOutcome
  /\ pc[p] = "locked"
  /\ op[p] # NoOp
  /\ \E liveSet \in SUBSET RangePorts(op[p].type), isInUse \in BOOLEAN :
       AllocateBody(p, op[p], liveSet, isInUse)

\* allocatePort's callback up to its second probe, as a step of its own: the
\* duplicate check, the scan and `await checkPortInUse(port)` on the chosen
\* port.  The process still holds the lock and has pushed and saved nothing;
\* it keeps the chosen port and the probe's answers.
AllocateProbe(p) ==
  /\ last = NoOutcome
  /\ pc[p] = "locked"
  /\ op[p] = NoOp
  /\ \E project \in Projects, service \in Services, type \in Types :
     \E liveSet \in SUBSET RangePorts(type), isInUse \in BOOLEAN :
       LET o == OpAllocate("allocate", project, service, type)
           r == reg[p]
           range == Ranges[type]
           existing == ExistingIndex(r, project, service)
           port == findAvailablePort(range.start, range.end, UsedPorts(r), liveSet)
       IN IF existing # 0
          THEN Throw(p, o, "AlreadyAllocated", r.allocations[existing].port,
                     <<project, service>>, {})
          ELSE IF port = NoPort
          THEN Throw(p, o, "NoAvailablePorts", NoPort, <<>>, liveSet)
          ELSE /\ pc' = [pc EXCEPT ![p] = "reprobed"]
               /\ op' = [op EXCEPT ![p] = [call |-> o, port |-> port,
                                           isInUse |-> isInUse, live |-> liveSet]]
               /\ UNCHANGED <<file, lock, reg, last, stale, otherVars>>

\* The rest of allocatePort's callback: the warning if the second probe found
\* the port in use, the push of the allocation, `return port`, then
\* withRegistryLock's saveRegistry and release.
AllocateStore(p) ==
  /\ last = NoOutcome
  /\ pc[p] = "reprobed"
  /\ SaveAndReturn(p, op[p].call, PushAllocation(reg[p], op[p].port, op[p].call),
                   op[p].port, op[p].isInUse, op[p].live)

\* getOrAllocatePort's first half: getExistingAllocation under
\* withRegistryLock (which saves the registry it loaded), then either the
\* existing port is returned or allocatePort is entered (its type check first).
GetExisting(p) ==
  /\ last = NoOutcome
  /\ pc[p] = "locked"
  /\ op[p] = NoOp
  /\ \E project \in Projects, service \in Services, type \in Types \cup {BogusType} :
       LET o == OpAllocate("getOrAllocate", project, service, type)
           r == reg[p]
           existing == ExistingIndex(r, project, service)
       IN IF existing # 0
          THEN SaveAndReturn(p, o, r, r.allocations[existing].port, FALSE, {})
          ELSE IF type \notin Types
          THEN /\ Finish(p, Outcome(o, "UnknownType", NoPort, <<>>, TRUE, FALSE, {}))
               /\ file' = saveRegistry(r)
               /\ lock' = NoHolder
          ELSE /\ file' = saveRegistry(r)
               /\ lock' = NoHolder
               /\ pc' = [pc EXCEPT ![p] = "ensure"]
               /\ op' = [op EXCEPT ![p] = o]
               /\ reg' = [reg EXCEPT ![p] = NoRegistry]
               /\ UNCHANGED <<last, stale, otherVars>>

\* Mutant: releasePort drops every allocation of the project, with or without
\* --all.
Release_WholeProject(p) ==
  /\ last = NoOutcome
  /\ pc[p] = "locked"
  /\ op[p] = NoOp
  /\ \E project \in Projects, service \in Services \cup {""}, all \in BOOLEAN :
       LET o == OpRelease(project, service, all)
           r == reg[p]
           kept == SelectSeq(r.allocations, LAMBDA a : a.project # project)
       IN IF ~all /\ service = ""
          THEN Throw(p, o, "InvalidArguments", NoPort, <<>>, {})
          ELSE SaveAndReturn(p, o, [r EXCEPT !.allocations = kept],
                             Len(r.allocations) - Len(kept), FALSE, {})

\* releasePort's callback.
Release(p) ==
  /\ last = NoOutcome
  /\ pc[p] = "locked"
  /\ op[p] = NoOp
  /\ \E project \in Projects, service \in Services \cup {""}, all \in BOOLEAN :
       LET o == OpRelease(project, service, all)
           r == reg[p]
           before == Len(r.allocations)
           kept == IF all
                   THEN SelectSeq(r.allocations, LAMBDA a : a.project # project)
                   ELSE SelectSeq(r.allocations,
                                  LAMBDA a : ~(a.project = project /\ a.service = service))
       IN IF ~all /\ service = ""
          THEN Throw(p, o, "InvalidArguments", NoPort, <<>>, {})
          ELSE SaveAndReturn(p, o, [r EXCEPT !.allocations = kept],
                             before - Len(kept), FALSE, {})

\* releasePortByNumber's callback under withRegistryLockConditional.
ReleaseByPort(p) ==
  /\ last = NoOutcome
  /\ pc[p] = "locked"
  /\ op[p] = NoOp
  /\ \E port \in Ports :
       LET o == OpPort("releaseByPort", port, "")
           r == reg[p]
           before == Len(r.allocations)
           kept == SelectSeq(r.allocations, LAMBDA a : a.port # port)
           released == before > Len(kept)
       IN ReturnConditional(p, o, [r EXCEPT !.allocations = kept],
                            IF released THEN 1 ELSE 0, released)

\* reservePort's callback.
Reserve(p) ==
  /\ last = NoOutcome
  /\ pc[p] = "locked"
  /\ op[p] = NoOp
  /\ \E port \in Ports, reason \in Reasons :
       LET o == OpPort("reserve", port, reason)
           r == reg[p]
           allocated == AllocatedIndex(r, port)
           reserved == ReservedIndex(r, port)
           reservation == [port |-> port, reason |-> reason]
       IN IF allocated # 0
          THEN Throw(p, o, "PortAllocated", port,
                     <<r.allocations[allocated].project,
                       r.allocations[allocated].service>>, {})
          ELSE IF reserved # 0
          THEN Throw(p, o, "PortReserved", port,
                     <<r.reservations[reserved].reason>>, {})
          ELSE SaveAndReturn(p, o, [r EXCEPT !.reservations = Append(@, reservation)],
                             NoPort, FALSE, {})

\* reservePort's callback returned and saveRegistry threw ("Failed to save
\* registry ..."): the exception leaves withRegistryLock through its finally
\* block.  The document is taken to be as it was.
ReserveSaveFails(p) ==
  /\ last = NoOutcome
  /\ pc[p] = "locked"
  /\ op[p] = NoOp
  /\ \E port \in Ports, reason \in Reasons :
       /\ AllocatedIndex(reg[p], port) = 0
       /\ ReservedIndex(reg[p], port) = 0
       /\ Throw(p, OpPort("reserve", port, reason), "SaveFailed", NoPort, <<>>, {})

\* unreservePort's callback returned shouldSave = true and saveRegistry threw:
\* the exception leaves withRegistryLockConditional through its finally block.
UnreserveSaveFails(p) ==
  /\ last = NoOutcome
  /\ pc[p] = "locked"
  /\ op[p] = NoOp
  /\ \E port \in Ports :
       /\ ReservedIndex(reg[p], port) # 0
       /\ Throw(p, OpPort("unreserve", port, ""), "SaveFailed", NoPort, <<>>, {})

\* unreservePort's callback under withRegistryLockConditional.
Unreserve(p) ==
  /\ last = NoOutcome
  /\ pc[p] = "locked"
  /\ op[p] = NoOp
  /\ \E port \in Ports :
       LET o == OpPort("unreserve", port, "")
           r == reg[p]
           before == Len(r.reservations)
           kept == SelectSeq(r.reservations, LAMBDA x : x.port # port)
           unreserved == before > Len(kept)
       IN ReturnConditional(p, o, [r EXCEPT !.reservations = kept],
                            IF unreserved THEN 1 ELSE 0, unreserved)

(* ------------------------------ render.ts ------------------------------ *)

\* A text is a sequence of tokens.  A token is one character, except that the
\* words "{devports", "project", "api", a service name letter, a port number
\* and the project name are one token each: none of them holds a quote, a
\* backslash, a newline, a brace, a colon or a character of a comment marker.

\* The file extensions rendered (the file name with ".devports" removed).
Extensions == {"env", "js", "vim"}

\* getCommentStyleForFile, for the extensions above (an absent marker is <<>>).
getCommentStyleForFile(e) ==
  CASE e = "js" ->
         [lineComment |-> <<"/", "/">>, blockStart |-> <<"/", "*">>,
          blockEnd |-> <<"*", "/">>]
    [] e = "vim" ->
         [lineComment |-> <<"\"">>, blockStart |-> <<>>, blockEnd |-> <<>>]
    [] OTHER ->
         [lineComment |-> <<"#">>, blockStart |-> <<>>, blockEnd |-> <<>>]

\* marker && text.slice(i).startsWith(marker)
StartsWithAt(text, i, marker) ==
  /\ marker # <<>>
  /\ i + Len(marker) - 1 <= Len(text)
  /\ \A k \in 1..Len(marker) : text[i + k - 1] = marker[k]

\* text.indexOf(marker, from), 0 for -1.
IndexOf(text, marker, from) ==
  FirstOf({j \in from..(Len(text) - Len(marker) + 1) :
             \A k \in 1..Len(marker) : text[j + k - 1] = marker[k]})

\* The loop of findCommentRanges from position i on; a range is
\* [start, end), end exclusive.
RECURSIVE ScanComments(_, _, _, _, _, _, _)
ScanComments(text, cs, i, inSingleQuote, inDoubleQuote, escaped, ranges) ==
  IF i > Len(text) THEN ranges
  ELSE IF escaped
  THEN ScanComments(text, cs, i + 1, inSingleQuote, inDoubleQuote, FALSE, ranges)
  ELSE IF text[i] = "\\" /\ (inSingleQuote \/ inDoubleQuote)
  THEN ScanComments(text, cs, i + 1, inSingleQuote, inDoubleQuote, TRUE, ranges)
  ELSE IF text[i] = "\"" /\ ~inSingleQuote
  THEN ScanComments(text, cs, i + 1, inSingleQuote, ~inDoubleQuote, FALSE, ranges)
  ELSE IF text[i] = "'" /\ ~inDoubleQuote
  THEN ScanComments(text, cs, i + 1, ~inSingleQuote, inDoubleQuote, FALSE, ranges)
  ELSE IF inSingleQuote \/ inDoubleQuote
  THEN ScanComments(text, cs, i + 1, inSingleQuote, inDoubleQuote, FALSE, ranges)
  ELSE IF StartsWithAt(text, i, cs.lineComment)
  THEN LET lineEnd == IndexOf(text, <<"\n">>, i)
           end == IF lineEnd = 0 THEN Len(text) + 1 ELSE lineEnd
       IN ScanComments(text, cs, end, FALSE, FALSE, FALSE,
                       Append(ranges, [start |-> i, end |-> end]))
  ELSE IF StartsWithAt(text, i, cs.blockStart)
  THEN LET blockEndPos == IndexOf(text, cs.blockEnd, i + Len(cs.blockStart))
       IN IF blockEndPos = 0
          THEN Append(ranges, [start |-> i, end |-> Len(text) + 1])
          ELSE ScanComments(text, cs, blockEndPos + Len(cs.blockEnd),
                            FALSE, FALSE, FALSE,
                            Append(ranges, [start |-> i,
                                            end |-> blockEndPos + Len(cs.blockEnd)]))
  ELSE ScanComments(text, cs, i + 1, FALSE, FALSE, FALSE, ranges)

\* Mutant: the scan does not know quotes and backslashes.
findCommentRanges_IgnoresQuotes(text, e) ==
  ScanComments([k \in DOMAIN text |->
                  IF text[k] \in {"\"", "'", "\\"} THEN "?" ELSE text[k]],
               getCommentStyleForFile(e), 1, FALSE, FALSE, FALSE, <<>>)

findCommentRanges(text, e) ==
  ScanComments(text, getCommentStyleForFile(e), 1, FALSE, FALSE, FALSE, <<>>)

\* /\{devports:([^}]+)\}/g run by exec from position `from` on: the matches in
\* order, each with its span [start, end) and its group.
RECURSIVE ExecAll(_, _)
ExecAll(text, from) ==
  LET opens == {i \in from..Len(text) :
                  /\ i + 3 <= Len(text)
                  /\ text[i] = "{devports"
                  /\ text[i + 1] = ":"
                  /\ text[i + 2] # "}"
                  /\ \E j \in (i + 3)..Len(text) : text[j] = "}"}
  IN IF opens = {} THEN <<>>
     ELSE LET start == Min(opens)
              close == Min({j \in (start + 3)..Len(text) : text[j] = "}"})
          IN <<[start |-> start, end |-> close + 1,
                body |-> SubSeq(text, start + 2, close - 1)]>>
             \o ExecAll(text, close + 1)

\* serviceDef.split(':')
RECURSIVE SplitColon(_)
SplitColon(body) ==
  LET colons == {k \in DOMAIN body : body[k] = ":"}
  IN IF colons = {} THEN <<body>>
     ELSE <<SubSeq(body, 1, Min(colons) - 1)>>
          \o SplitColon(SubSeq(body, Min(colons) + 1, Len(body)))

\* Mutant: no match counts as commented.
InsideComment_Never(commentRanges, start, end) == FALSE

\* commentRanges.some((range) => start >= range.start && end <= range.end)
InsideComment(commentRanges, start, end) ==
  \E k \in DOMAIN commentRanges :
    start >= commentRanges[k].start /\ end <= commentRanges[k].end

\* The project name handed to processTemplate (URL-safe after makeUrlSafe).
ProjectName == <<"app">>

\* processTemplate's replacement callback for one match.
Replacement(text, m, portMap, projectName) ==
  LET parts == SplitColon(m.body)
      match == SubSeq(text, m.start, m.end - 1)
  IN IF Len(parts) = 1 /\ parts[1] = <<"project">> THEN projectName
     ELSE IF Len(parts) # 2 THEN match
     ELSE IF parts[2] \in DOMAIN portMap THEN <<ToString(portMap[parts[2]])>>
     ELSE match

\* The s.overwrite(start, end, replacementText) calls of processTemplate, in
\* order.
Overwrites(text, portMap, projectName, e) ==
  LET commentRanges == findCommentRanges(text, e)
      matches == ExecAll(text, 1)
      kept == SelectSeq(matches,
                        LAMBDA m : ~InsideComment(commentRanges, m.start, m.end))
  IN [k \in DOMAIN kept |->
        [start |-> kept[k].start, end |-> kept[k].end,
         text |-> Replacement(text, kept[k], portMap, projectName)]]

\* MagicString.toString(): the original text with every overwritten span
\* replaced, from position i on.
RECURSIVE Splice(_, _, _)
Splice(text, edits, i) ==
  IF i > Len(text) THEN <<>>
  ELSE LET here == {k \in DOMAIN edits : edits[k].start = i}
       IN IF here = {} THEN <<text[i]>> \o Splice(text, edits, i + 1)
          ELSE LET k == Min(here)
               IN edits[k].text \o Splice(text, edits, edits[k].end)

\* Mutant: the text with the replacements made is scanned and substituted a
\* second time.
processTemplate_Rescans(text, portMap, projectName, e) ==
  LET first == Splice(text, Overwrites(text, portMap, projectName, e), 1)
  IN Splice(first, Overwrites(first, portMap, projectName, e), 1)

processTemplate(text, portMap, projectName, e) ==
  Splice(text, Overwrites(text, portMap, projectName, e), 1)

\* [...new Set(services)]: the first occurrence of each element, in order.
RECURSIVE Dedupe(_)
Dedupe(seq) ==
  IF seq = <<>> THEN <<>>
  ELSE LET init == Dedupe(SubSeq(seq, 1, Len(seq) - 1))
           x == seq[Len(seq)]
       IN IF \E k \in DOMAIN init : init[k] = x THEN init ELSE Append(init, x)

\* detectServicesFromTemplate: "serviceName:serviceType" of every well-formed
\* service placeholder outside the comment ranges.
detectServicesFromTemplate(text, e) ==
  LET commentRanges == findCommentRanges(text, e)
      matches == ExecAll(text, 1)
      isService(m) ==
        /\ ~InsideComment(commentRanges, m.start, m.end)
        /\ ~(Len(SplitColon(m.body)) = 1 /\ SplitColon(m.body)[1] = <<"project">>)
        /\ Len(SplitColon(m.body)) = 2
      kept == SelectSeq(matches, isService)
  IN Dedupe([k \in DOMAIN kept |->
               [name |-> SplitColon(kept[k].body)[2],
                type |-> SplitColon(kept[k].body)[1]]])

\* The texts made of at most n of the given pieces.
RECURSIVE TextsOf(_, _)
TextsOf(pieces, n) ==
  IF n = 0 THEN {<<>>}
  ELSE LET shorter == TextsOf(pieces, n - 1)
       IN shorter \cup {t \o piece : t \in shorter, piece \in pieces}

Placeholder(type, name) == <<"{devports", ":", type, ":">> \o name \o <<"}">>

\* The markers of a comment style, each as one piece.
Markers(e) ==
  {getCommentStyleForFile(e).lineComment, getCommentStyleForFile(e).blockStart,
   getCommentStyleForFile(e).blockEnd} \ {<<>>}

\* Placeholders (a service with and without an entry in the port map, a name
\* holding a comment marker, a name holding a quote, the project marker, a
\* malformed body), the style's markers, a newline and the two quotes.
RenderPieces(e) ==
  {Placeholder("api", <<"x">>), Placeholder("api", <<"y">>),
   Placeholder("api", <<"x">> \o getCommentStyleForFile(e).lineComment),
   Placeholder("api", <<"x", "'">>),
   <<"{devports", ":", "project", "}">>, <<"{devports", ":", "x", "}">>,
   <<"\n">>, <<"'">>, <<"\"">>} \cup Markers(e)

\* Quotes, the backslash, the style's line marker and one placeholder.
LexerPieces(e) ==
  {<<"\"">>, <<"'">>, <<"\\">>, getCommentStyleForFile(e).lineComment,
   Placeholder("api", <<"x">>)}

Templates(e) ==
  TextsOf(RenderPieces(e), MaxPieces) \cup TextsOf(LexerPieces(e), MaxTokens)

\* The service names with an entry in the full port map: every name of the
\* pieces except "y".
MappedNames ==
  {<<"x">>, <<"x", "'">>}
    \cup {<<"x">> \o getCommentStyleForFile(e).lineComment : e \in Extensions}

PortMaps == {NoPorts, [name \in MappedNames |-> 5432]}

\* A template, its file's extension and a port map; nothing rendered yet.
InitRender ==
  /\ file = DEFAULT_REGISTRY
  /\ Idle
  /\ ext \in Extensions
  /\ content \in Templates(ext)
  /\ ports \in PortMaps
  /\ output = NoOutput
  /\ projName = ProjectName
  /\ scan = NoScan

\* The project marker, a service placeholder, the style's line marker and a
\* newline.
ProjectPieces(e) ==
  {<<"{devports", ":", "project", "}">>, Placeholder("api", <<"x">>),
   getCommentStyleForFile(e).lineComment, <<"\n">>}

\* Project names as processTemplate may be handed them: a plain one, one that
\* reads as a service placeholder, one that reads as the project marker.
ProjectNames ==
  {ProjectName, Placeholder("api", <<"x">>), <<"{devports", ":", "project", "}">>}

\* A template of project markers and placeholders, with any of the project
\* names; nothing rendered yet.
InitProject ==
  /\ file = DEFAULT_REGISTRY
  /\ Idle
  /\ ext \in Extensions
  /\ content \in TextsOf(ProjectPieces(ext), MaxPieces)
  /\ ports \in PortMaps
  /\ output = NoOutput
  /\ projName \in ProjectNames
  /\ scan = NoScan

\* processTemplate(content, ports, projectName, filePath)
Substitute ==
  /\ output = NoOutput
  /\ output' = [op |-> "substitute",
                text |-> processTemplate(content, ports, projName, ext),
                edits |-> Overwrites(content, ports, projName, ext),
                services |-> <<>>]
  /\ UNCHANGED <<file, lock, pc, op, reg, last, stale, content, ext, ports,
                 projName, scan, render>>

\* detectServicesFromTemplate(content, filePath)
Detect ==
  /\ output = NoOutput
  /\ output' = [op |-> "detect", text |-> <<>>, edits |-> <<>>,
                services |-> detectServicesFromTemplate(content, ext)]
  /\ UNCHANGED <<file, lock, pc, op, reg, last, stale, content, ext, ports,
                 projName, scan, render>>

(* --------------------------- render.ts: renderFile --------------------- *)

\* What detectServicesFromTemplate can hand to renderFile's loop: one or two
\* different "name:type" entries, of the type "api" or of a type that is not
\* configured.  The same name may come with both types.
ServiceLists ==
  LET entries == [name : Services, type : {"api", BogusType}]
  IN {<<e>> : e \in entries}
       \cup {list \in entries \X entries : list[1] # list[2]}

\* The renderFile call as its caller sees it.
OpRender(project) == [NoOp EXCEPT !.name = "render", !.project = project]

\* renderFile ends, by returning or by the exception of a getOrAllocatePort.
RenderFinish(p, kind) ==
  /\ pc' = [pc EXCEPT ![p] = "idle"]
  /\ op' = [op EXCEPT ![p] = NoOp]
  /\ reg' = [reg EXCEPT ![p] = NoRegistry]
  /\ render' = [render EXCEPT ![p] = NoRender]
  /\ last' = Outcome(OpRender(render[p].project), kind, NoPort, <<>>,
                     kind = "ok", FALSE, {})
  /\ UNCHANGED <<stale, renderVars, scan>>

\* getOrAllocatePort returned `port` for the first service of the queue:
\* allocatedPorts[serviceName] = port, then the next service, or the end of
\* the loop (the substitution that follows does not touch the registry).
RenderGotPort(p, port, isNew) ==
  LET entry == render[p].queue[1]
      rest == Tail(render[p].queue)
  IN IF rest = <<>>
     THEN RenderFinish(p, "ok")
     ELSE /\ pc' = [pc EXCEPT ![p] = "ensure"]
          /\ op' = [op EXCEPT ![p] = NoOp]
          /\ reg' = [reg EXCEPT ![p] = NoRegistry]
          /\ render' = [render EXCEPT ![p] =
               [project |-> render[p].project,
                queue |-> rest,
                allocatedPorts |-> (entry.name :> port) @@ render[p].allocatedPorts,
                created |-> IF isNew THEN render[p].created \cup {entry.name}
                            ELSE render[p].created]]
          /\ UNCHANGED <<last, stale, renderVars, scan>>

\* renderFile up to its loop: the project name and the detected services.
RenderStart(p) ==
  /\ last = NoOutcome
  /\ pc[p] = "idle"
  /\ render[p] = NoRender
  /\ \E project \in Projects, queue \in ServiceLists :
       render' = [render EXCEPT ![p] =
                   [NoRender EXCEPT !.project = project, !.queue = queue]]
  /\ pc' = [pc EXCEPT ![p] = "ensure"]
  /\ UNCHANGED <<file, lock, op, reg, last, stale, renderVars, scan>>

\* A getOrAllocatePort of the loop enters withRegistryLock.
RenderEnsure(p) ==
  /\ pc[p] = "ensure"
  /\ Ensure(p)

\* lockfile.lock rejects: the exception leaves getOrAllocatePort and
\* renderFile.
RenderLockTimeout(p) ==
  /\ last = NoOutcome
  /\ pc[p] = "lock"
  /\ lock # NoHolder
  /\ ~stale
  /\ RenderFinish(p, "LockFailed")
  /\ UNCHANGED <<file, lock>>

\* getOrAllocatePort(projectName, serviceName, serviceType) for the first
\* service of the queue, first half: getExistingAllocation under
\* withRegistryLock, then the existing port, or allocatePort's type check.
RenderGetExisting(p) ==
  /\ last = NoOutcome
  /\ pc[p] = "locked"
  /\ op[p] = NoOp
  /\ LET entry == render[p].queue[1]
         r == reg[p]
         existing == ExistingIndex(r, render[p].project, entry.name)
     IN /\ file' = saveRegistry(r)
        /\ lock' = NoHolder
        /\ IF existing # 0
           THEN RenderGotPort(p, r.allocations[existing].port, FALSE)
           ELSE IF entry.type \notin Types
           THEN RenderFinish(p, "UnknownType")
           ELSE /\ pc' = [pc EXCEPT ![p] = "ensure"]
                /\ op' = [op EXCEPT ![p] =
                     OpAllocate("getOrAllocate", render[p].project, entry.name,
                                entry.type)]
                /\ reg' = [reg EXCEPT ![p] = NoRegistry]
                /\ UNCHANGED <<last, stale, otherVars>>

\* getOrAllocatePort's second half in the loop: allocatePort's callback.
RenderAllocate(p) ==
  /\ last = NoOutcome
  /\ pc[p] = "locked"
  /\ op[p] # NoOp
  /\ \E liveSet \in SUBSET RangePorts(op[p].type) :
       LET o == op[p]
           r == reg[p]
           range == Ranges[o.type]
           existing == ExistingIndex(r, o.project, o.service)
           port == findAvailablePort(range.start, range.end, UsedPorts(r), liveSet)
       IN /\ lock' = NoHolder
          /\ IF existing # 0
             THEN RenderFinish(p, "AlreadyAllocated") /\ UNCHANGED file
             ELSE IF port = NoPort
             THEN RenderFinish(p, "NoAvailablePorts") /\ UNCHANGED file
             ELSE /\ file' = saveRegistry(PushAllocation(r, port, o))
                  /\ RenderGotPort(p, port, TRUE)

(* --------------------------- specifications ---------------------------- *)

\* The outcome of a call is taken before anything else happens (every other
\* action waits for last = NoOutcome).
Next ==
  \/ Observe
  \/ \E p \in Procs :
       \/ AllocateUnknownType(p)
       \/ Ensure(p)
       \/ Acquire(p)
       \/ LockTimeout(p)
       \/ Allocate(p)
       \/ AllocateAfterGet(p)
       \/ GetExisting(p)
       \/ Release(p)
       \/ ReleaseByPort(p)
       \/ Reserve(p)
       \/ Unreserve(p)

\* The engine's calls on an existing registry document.
Spec == Init /\ [][Next]_vars

NextFresh == Next \/ \E p \in Procs : Create(p)

\* The same calls from the first run on, when the document does not exist yet.
SpecFresh == InitFresh /\ [][NextFresh]_vars

\* Only getOrAllocatePort is called, by every process.
NextGetOrAllocate ==
  \/ Observe
  \/ \E p \in Procs :
       \/ Ensure(p)
       \/ Acquire(p)
       \/ LockTimeout(p)
       \/ GetExisting(p)
       \/ AllocateAfterGet(p)

SpecGetOrAllocate == Init /\ [][NextGetOrAllocate]_vars

\* allocatePort with its callback cut at the second probe.
NextProbe ==
  \/ Observe
  \/ \E p \in Procs :
       \/ Ensure(p)
       \/ Acquire(p)
       \/ LockTimeout(p)
       \/ AllocateProbe(p)
       \/ AllocateStore(p)

SpecProbe == Init /\ [][NextProbe]_vars

\* One call of findAvailablePort.
NextScan == FindAvailable

SpecScan == InitScan /\ [][NextScan]_vars

\* reserve and unreserve calls on a document that cannot always be written.
NextSaveFail ==
  \/ Observe
  \/ \E p \in Procs :
       \/ Ensure(p)
       \/ Acquire(p)
       \/ LockTimeout(p)
       \/ Reserve(p)
       \/ Unreserve(p)
       \/ ReserveSaveFails(p)
       \/ UnreserveSaveFails(p)

SpecSaveFail == Init /\ [][NextSaveFail]_vars

\* renderFile calls, by every process.
NextRenderFile ==
  \/ Observe
  \/ \E p \in Procs :
       \/ RenderStart(p)
       \/ RenderEnsure(p)
       \/ Acquire(p)
       \/ RenderLockTimeout(p)
       \/ RenderGetExisting(p)
       \/ RenderAllocate(p)

SpecRenderFile == Init /\ [][NextRenderFile]_vars

\* reserve and unreserve calls by processes that may die holding the lock.
NextCrash ==
  \/ Observe
  \/ Expire
  \/ \E p \in Procs :
       \/ Ensure(p)
       \/ Acquire(p)
       \/ LockTimeout(p)
       \/ Reclaim(p)
       \/ Crash(p)
       \/ Reserve(p)
       \/ Unreserve(p)

\* A process that is alive keeps running: its lock attempts are retried, its
\* callback runs to the end and its caller takes the outcome.  Nothing is
\* assumed about crashes or about the time a dead holder's lock needs to get
\* stale.
FairCrash ==
  /\ WF_vars(Observe)
  /\ \A p \in Procs :
       /\ WF_vars(Reclaim(p))
       /\ SF_vars(Reserve(p) \/ Unreserve(p))

SpecCrash == Init /\ [][NextCrash]_vars /\ FairCrash

NextRender == Substitute \/ Detect

\* The renderer's pure functions applied to a template.
SpecRender == InitRender /\ [][NextRender]_vars

\* The renderer's calls with project names that hold placeholder syntax.
SpecProject == InitProject /\ [][NextRender]_vars

(* ------------------------------- claims -------------------------------- *)

\* The allocations of (project, service) in a registry, as indices.
PairIndices(r, project, service) ==
  {i \in DOMAIN r.allocations :
     r.allocations[i].project = project /\ r.allocations[i].service = service}

\* C1: in every reachable state of the registry document, under any
\* interleaving of the processes' calls, no two stored allocations have the
\* same port, also when their types differ and the ranges overlap.
C1_UniquePorts ==
  \A i, j \in DOMAIN file.allocations :
    i # j => file.allocations[i].port # file.allocations[j].port

\* C1 witness: allocations of both types are stored and one of them holds the
\* port the two ranges share.
C1_Witness ==
  \E i, j \in DOMAIN file.allocations :
    /\ file.allocations[i].type = "api"
    /\ file.allocations[j].type = "custom"
    /\ RangeLen \in {file.allocations[i].port, file.allocations[j].port}

\* C2: in every reachable state of the registry document at most one
\* allocation exists for each (project, service) pair.
C2_OnePerPair ==
  \A project \in Projects, service \in Services :
    Cardinality(PairIndices(file, project, service)) <= 1

\* C2 witness: a second allocate for a stored pair has just been rejected.
C2_Witness ==
  /\ last.kind = "AlreadyAllocated"
  /\ PairIndices(file, last.op.project, last.op.service) # {}

\* C3: the registry document is changed only by the process that holds the
\* lock, and what it writes was computed from the document as it is: no
\* committed change is overwritten by a write based on an older state.
C3_Serialized ==
  [][(file.exists /\ file' # file) => (lock # NoHolder /\ reg[lock] = file)]_vars

\* C4: in every reachable state of the registry document no port is both the
\* port of an allocation and the port of a reservation.
C4_AllocatedNotReserved == AllocPorts(file) \cap ReservedPorts(file) = {}

\* C4 witness: reserve has just been refused for a port that an allocation
\* holds, while other ports are reserved.
C4_Witness ==
  /\ last.kind = "PortAllocated"
  /\ last.op.port \in AllocPorts(file)
  /\ ReservedPorts(file) # {}

\* The step ends a call named `name`.
Ends(name) == last' # NoOutcome /\ last'.op.name = name

\* The port of the allocation of (project, service) in a registry that holds
\* one (NoPort if it holds none).
PairPort(r, project, service) ==
  IF PairIndices(r, project, service) = {} THEN NoPort
  ELSE r.allocations[Min(PairIndices(r, project, service))].port

\* C5 as stated: allocate(p, s, t), whatever t is, called when (p, s) has an
\* allocation fails with AlreadyAllocated naming the existing port and leaves
\* the document with that one allocation.
C5_AnyType ==
  [][(Ends("allocate")
        /\ PairIndices(file, last'.op.project, last'.op.service) # {})
     => /\ last'.kind = "AlreadyAllocated"
        /\ last'.value = PairPort(file, last'.op.project, last'.op.service)
        /\ file' = file
        /\ Cardinality(PairIndices(file', last'.op.project, last'.op.service)) = 1]_vars

\* C5 amended: allocate(p, s, t) with t a configured type, called when (p, s)
\* has an allocation, fails with AlreadyAllocated naming the existing port;
\* with a type that is not configured it fails with UnknownType; either way the
\* document is unchanged and holds exactly one allocation for (p, s), with its
\* original port.
C5_DoubleAllocationFails ==
  [][(Ends("allocate")
        /\ PairIndices(file, last'.op.project, last'.op.service) # {})
     => /\ IF last'.op.type \in Types
           THEN /\ last'.kind = "AlreadyAllocated"
                /\ last'.value = PairPort(file, last'.op.project, last'.op.service)
                /\ last'.info = <<last'.op.project, last'.op.service>>
           ELSE last'.kind = "UnknownType"
        /\ file' = file
        /\ Cardinality(PairIndices(file', last'.op.project, last'.op.service)) = 1
        /\ PairPort(file', last'.op.project, last'.op.service)
             = PairPort(file, last'.op.project, last'.op.service)]_vars

\* C5 witness: allocate has just failed with AlreadyAllocated, naming the port
\* of the one stored allocation of its pair.
C5_Witness ==
  /\ last.op.name = "allocate"
  /\ last.kind = "AlreadyAllocated"
  /\ Cardinality(PairIndices(file, last.op.project, last.op.service)) = 1
  /\ last.value = PairPort(file, last.op.project, last.op.service)

\* C6: whenever getOrAllocate(p, s, t) returns a port, the document holds
\* exactly one allocation for (p, s) and it has the returned port; when (p, s)
\* was allocated already the document is left as it was.  So a second call in
\* a row returns the port of the first and no second port is issued.
C6_GetOrAllocateIdempotent ==
  [][(Ends("getOrAllocate") /\ last'.kind = "ok")
     => /\ Cardinality(PairIndices(file', last'.op.project, last'.op.service)) = 1
        /\ PairPort(file', last'.op.project, last'.op.service) = last'.value
        /\ PairIndices(file, last'.op.project, last'.op.service) # {}
             => file' = file]_vars

\* C6 witness: getOrAllocate has just returned the port of an allocation of
\* its type that it did not append itself (a later allocation follows it).
C6_Witness ==
  /\ last.op.name = "getOrAllocate"
  /\ last.kind = "ok"
  /\ \E i \in PairIndices(file, last.op.project, last.op.service) :
       /\ i < Len(file.allocations)
       /\ file.allocations[i].type = last.op.type
       /\ file.allocations[i].port = last.value

\* C7: a port returned by allocate (directly or through getOrAllocate) is not
\* reserved in the document at the time of the call, nor afterwards.
C7_ReservedNeverAllocated ==
  [][(last' # NoOutcome /\ last'.op.name \in {"allocate", "getOrAllocate"}
        /\ last'.kind = "ok")
     => /\ last'.value \notin ReservedPorts(file)
        /\ last'.value \notin ReservedPorts(file')]_vars

\* C7 witness: allocate has just returned a port above a port of its range
\* that a caller reserved, with no port of the range in use.
C7_Witness ==
  /\ last.op.name = "allocate"
  /\ last.kind = "ok"
  /\ last.live = {}
  /\ \E i \in DOMAIN file.reservations :
       /\ file.reservations[i].reason \in Reasons
       /\ file.reservations[i].port \in RangePorts(last.op.type)
       /\ file.reservations[i].port < last.value

\* C8: with no port of the type's range in use, allocate for a pair that has
\* no allocation succeeds with a free port of the range as long as one is
\* neither allocated nor reserved, and that port becomes allocated; once every
\* port of the range is taken it fails with NoAvailablePorts.  From an unused
\* range of N ports, N allocations succeed with N distinct ports and the next
\* fails.
C8_RangeExhaustion ==
  [][(Ends("allocate") /\ last'.op.type \in Types /\ last'.live = {}
        /\ PairIndices(file, last'.op.project, last'.op.service) = {})
     => LET free == RangePorts(last'.op.type) \ UsedPorts(file)
        IN IF free = {}
           THEN last'.kind = "NoAvailablePorts" /\ file' = file
           ELSE /\ last'.kind = "ok"
                /\ last'.value = Min(free)
                /\ AllocPorts(file') = AllocPorts(file) \cup {last'.value}
                /\ Len(file'.allocations) = Len(file.allocations) + 1]_vars

\* C8 witness: the N ports of the "api" range are held by N allocations of
\* that type, nothing in the range is reserved or in use, and one more
\* allocate of the type has just failed with NoAvailablePorts.
C8_Witness ==
  /\ last.op.name = "allocate"
  /\ last.op.type = "api"
  /\ last.kind = "NoAvailablePorts"
  /\ last.live = {}
  /\ Len(file.allocations) = RangeLen
  /\ \A i \in DOMAIN file.allocations : file.allocations[i].type = "api"
  /\ AllocPorts(file) = RangePorts("api")
  /\ ReservedPorts(file) \cap RangePorts("api") = {}

\* C9: the registry document changes only in a step that ends a call
\* successfully: a call that fails (UnknownType, AlreadyAllocated,
\* NoAvailablePorts, PortAllocated, PortReserved, InvalidArguments) leaves the
\* document exactly as it was.
C9_FailureWritesNothing ==
  [][file' # file => (last' # NoOutcome /\ last'.kind = "ok")]_vars

\* C9 witness: a call has just failed on a document that holds allocations
\* and a caller's reservation.
C9_Witness ==
  /\ last.kind \in {"AlreadyAllocated", "NoAvailablePorts", "PortAllocated",
                    "PortReserved", "InvalidArguments", "UnknownType"}
  /\ file.allocations # <<>>
  /\ \E i \in DOMAIN file.reservations : file.reservations[i].reason \in Reasons

\* C10: releaseByPort of a port no allocation has, and unreserve of a port no
\* reservation has, return false, do not call saveRegistry and leave the
\* document, every record and the order of the records, as they were.
C10_NoOpNoWrite ==
  [][(\/ Ends("releaseByPort") /\ last'.op.port \notin AllocPorts(file)
      \/ Ends("unreserve") /\ last'.op.port \notin ReservedPorts(file))
     => /\ last'.kind = "ok"
        /\ last'.value = 0
        /\ ~last'.saved
        /\ file' = file]_vars

\* C10 witness: releaseByPort has just returned false for a port without an
\* allocation while the document holds allocations.
C10_Witness ==
  /\ last.op.name = "releaseByPort"
  /\ last.value = 0
  /\ ~last.saved
  /\ last.op.port \notin AllocPorts(file)
  /\ Len(file.allocations) >= 2

\* C11: reserve(port, reason) fails with PortAllocated, naming the project and
\* service of the allocation that holds the port, when one does; fails with
\* PortReserved, naming the stored reason, when the port is reserved; otherwise
\* it appends exactly one reservation of the port with the reason; a failing
\* call leaves the document unchanged.
C11_ReserveContract ==
  [][Ends("reserve")
     => LET port == last'.op.port
            owners == {i \in DOMAIN file.allocations :
                         file.allocations[i].port = port}
            holders == {i \in DOMAIN file.reservations :
                          file.reservations[i].port = port}
        IN IF owners # {}
           THEN /\ last'.kind = "PortAllocated"
                /\ \E i \in owners :
                     last'.info = <<file.allocations[i].project,
                                    file.allocations[i].service>>
                /\ file' = file
           ELSE IF holders # {}
           THEN /\ last'.kind = "PortReserved"
                /\ \E i \in holders :
                     last'.info = <<file.reservations[i].reason>>
                /\ file' = file
           ELSE /\ last'.kind = "ok"
                /\ file'.reservations =
                     Append(file.reservations,
                            [port |-> port, reason |-> last'.op.reason])
                /\ file'.allocations = file.allocations]_vars

\* C11 witness: reserve has just failed with PortReserved on a port a caller
\* had reserved, naming that caller's reason, while allocations are stored.
C11_Witness ==
  /\ last.op.name = "reserve"
  /\ last.kind = "PortReserved"
  /\ last.info \in {<<reason>> : reason \in Reasons}
  /\ last.op.port \in ReservedPorts(file)
  /\ file.allocations # <<>>

\* C12: release called without exactly one of service and all fails with
\* InvalidArguments, and it fails before the lock is acquired: the failing
\* process never left its idle position, holds no lock and has loaded no
\* registry.
C12_InvalidArgumentsBeforeLock ==
  [][Ends("release")
     => /\ ((last'.op.service # "") = last'.op.all)
             => last'.kind = "InvalidArguments"
        /\ last'.kind = "InvalidArguments"
             => /\ pc' = pc
                /\ lock' = lock
                /\ reg' = reg]_vars

\* C13: a successful allocate(p, s, t), called directly or reached through
\* getOrAllocate for a pair without an allocation, returns a port of
\* config.ranges[t] and appends exactly one allocation, carrying that port, p,
\* s and t, to the document; nothing else in the document changes.
C13_AllocateInRange ==
  [][(/\ last' # NoOutcome
      /\ last'.kind = "ok"
      /\ \/ last'.op.name = "allocate"
         \/ /\ last'.op.name = "getOrAllocate"
            /\ PairIndices(file, last'.op.project, last'.op.service) = {})
     => /\ Ranges[last'.op.type].start <= last'.value
        /\ last'.value <= Ranges[last'.op.type].end
        /\ file'.allocations =
             Append(file.allocations,
                    [port |-> last'.value, project |-> last'.op.project,
                     service |-> last'.op.service, type |-> last'.op.type])
        /\ file'.reservations = file.reservations]_vars

\* C13 witness: allocate has just returned the last port of the "custom"
\* range and its allocation is the last one stored.
C13_Witness ==
  /\ last.op.name = "allocate"
  /\ last.kind = "ok"
  /\ last.op.type = "custom"
  /\ last.value = Ranges["custom"].end
  /\ file.allocations # <<>>
  /\ file.allocations[Len(file.allocations)] =
       [port |-> last.value, project |-> last.op.project,
        service |-> last.op.service, type |-> "custom"]

\* The text is one double-quoted string literal: it opens with the first
\* token, closes with the last, and holds no other double quote and no
\* backslash.
IsQuoted(text) ==
  /\ Len(text) >= 3
  /\ text[1] = "\""
  /\ text[Len(text)] = "\""
  /\ \A k \in 2..(Len(text) - 1) : text[k] \notin {"\"", "\\"}

\* What a placeholder with the given body resolves to; <<>> if it does not
\* resolve (unknown service, malformed body).
Resolved(body) ==
  IF body = <<"project">> THEN ProjectName
  ELSE IF /\ Len(SplitColon(body)) = 2
          /\ SplitColon(body)[2] \in DOMAIN ports
  THEN <<ToString(ports[SplitColon(body)[2]])>>
  ELSE <<>>

\* The match is overwritten with the given text.
Overwritten(m, text) ==
  \E k \in DOMAIN output.edits :
    /\ output.edits[k].start = m.start
    /\ output.edits[k].end = m.end
    /\ output.edits[k].text = text

\* No overwrite touches the span of the match.
Untouched(m) ==
  \A k \in DOMAIN output.edits :
    output.edits[k].end <= m.start \/ m.end <= output.edits[k].start

\* C14 as stated: the placeholders inside a string literal are left as they
\* are, so a template that is one string literal comes out unchanged.
C14_StringLiteralUntouched ==
  (output.op = "substitute" /\ IsQuoted(content)) => output.text = content

\* C14 amended: a string literal only keeps comment markers from being
\* recognized; the placeholders inside it are substituted like any other:
\* each one that resolves is overwritten with its value, also behind a comment
\* marker inside the literal, and no resolvable placeholder is left in the
\* output.
C14_StringLiteralSubstituted ==
  (output.op = "substitute" /\ IsQuoted(content))
    => /\ \A i \in DOMAIN ExecAll(content, 1) :
            LET m == ExecAll(content, 1)[i]
            IN Resolved(m.body) # <<>> => Overwritten(m, Resolved(m.body))
       /\ \A i \in DOMAIN ExecAll(output.text, 1) :
            Resolved(ExecAll(output.text, 1)[i].body) = <<>>
       /\ Len(output.text) <= Len(content)

\* C14 witness: the literal "#{devports:api:x}" of a hash-comment file has
\* been rendered to "#5432".
C14_Witness ==
  /\ output.op = "substitute"
  /\ ext = "env"
  /\ content = <<"\"", "#">> \o Placeholder("api", <<"x">>) \o <<"\"">>
  /\ output.text = <<"\"", "#", "5432", "\"">>

\* The sum of the length changes of the overwrites that end at or before pos.
RECURSIVE Shift(_, _)
Shift(edits, pos) ==
  IF edits = <<>> THEN 0
  ELSE LET e == edits[Len(edits)]
           rest == Shift(SubSeq(edits, 1, Len(edits) - 1), pos)
       IN IF e.end <= pos THEN rest + Len(e.text) - (e.end - e.start) ELSE rest

\* C15: for every template, comment style and port map: a placeholder whose
\* span lies fully inside a comment range is not overwritten by substitute,
\* its text is found unchanged in the output, and detectServices reports only
\* services that have a placeholder outside the comment ranges; every
\* placeholder outside the comment ranges that resolves is overwritten with
\* its value.
C15_CommentImmunity ==
  LET ranges == findCommentRanges(content, ext)
      matches == ExecAll(content, 1)
      commented(m) == \E k \in DOMAIN ranges :
                        m.start >= ranges[k].start /\ m.end <= ranges[k].end
      shifted(m) == m.start + Shift(output.edits, m.start)
  IN /\ output.op = "substitute"
          => \A i \in DOMAIN matches :
               LET m == matches[i]
               IN IF commented(m)
                  THEN /\ Untouched(m)
                       /\ SubSeq(output.text, shifted(m),
                                 shifted(m) + (m.end - m.start) - 1)
                            = SubSeq(content, m.start, m.end - 1)
                  ELSE Resolved(m.body) # <<>>
                         => Overwritten(m, Resolved(m.body))
     /\ output.op = "detect"
          => \A k \in DOMAIN output.services :
               \E i \in DOMAIN matches :
                 /\ ~commented(matches[i])
                 /\ matches[i].body = output.services[k].type \o <<":">>
                                        \o output.services[k].name

\* C15 witness: "#{devports:api:x}", newline, "{devports:api:x}" of a
\* hash-comment file, x mapped to 5432, has been rendered: the comment line is
\* unchanged and the second line is 5432.
C15_Witness ==
  /\ output.op = "substitute"
  /\ ext = "env"
  /\ content = <<"#">> \o Placeholder("api", <<"x">>) \o <<"\n">>
                 \o Placeholder("api", <<"x">>)
  /\ output.text = <<"#">> \o Placeholder("api", <<"x">>) \o <<"\n", "5432">>

\* The position of the quote that closes the string opened by the first
\* token: the first later token equal to it that has an even number of
\* backslashes right before it (0: the string is not closed).
ClosingQuote(text) ==
  FirstOf({j \in 2..Len(text) :
             /\ text[j] = text[1]
             /\ \E n \in 0..(j - 2) :
                  /\ n % 2 = 0
                  /\ \A k \in (j - n)..(j - 1) : text[k] = "\\"
                  /\ (j - n - 1 >= 2 => text[j - n - 1] # "\\")})

\* A comment marker of the style (line comment or block start) stands at
\* position j.
OpensComment(text, j, style) ==
  \/ "lineComment" \in DOMAIN style /\ StartsWithAt(text, j, style.lineComment)
  \/ "blockStart" \in DOMAIN style /\ StartsWithAt(text, j, style.blockStart)

\* The first comment marker after position `from`, provided no quote stands
\* between (0: there is none).
MarkerAfter(text, from, style) ==
  FirstOf({j \in (from + 1)..Len(text) :
             /\ OpensComment(text, j, style)
             /\ \A k \in (from + 1)..(j - 1) :
                  text[k] \notin {"\"", "'"} /\ ~OpensComment(text, k, style)})

\* The comment opened by the marker at position `real` is still open at the
\* end of the span [real, end): no newline after a line marker, no block end
\* after a block start.
StillOpen(text, real, end, style) ==
  IF "lineComment" \in DOMAIN style /\ StartsWithAt(text, real, style.lineComment)
  THEN \A k \in real..(end - 1) : text[k] # "\n"
  ELSE \A k \in (real + Len(style.blockStart))..(end - 1) :
         ~StartsWithAt(text, k, style.blockEnd)

\* C16: in a text that opens with a quoted string (single or double quotes,
\* backslash-escaped quotes inside), no comment range starts inside the
\* string, and the first comment marker after the closing quote starts one; a
\* resolvable placeholder before that marker is replaced and one in the
\* comment after it is not.
C16_StringLiteralImmunity ==
  LET ranges == findCommentRanges(content, ext)
      style == getCommentStyleForFile(ext)
      close == ClosingQuote(content)
      real == MarkerAfter(content, close, style)
      matches == ExecAll(content, 1)
  IN (content # <<>> /\ content[1] \in {"\"", "'"})
       => /\ \A k \in DOMAIN ranges :
               close # 0 /\ ranges[k].start > close
          /\ (close # 0 /\ real # 0)
               => /\ ranges # <<>>
                  /\ ranges[1].start = real
                  /\ output.op = "substitute"
                       => \A i \in DOMAIN matches :
                            LET m == matches[i]
                            IN /\ (m.end <= real /\ Resolved(m.body) # <<>>)
                                    => Overwritten(m, Resolved(m.body))
                               /\ (m.start > real
                                     /\ StillOpen(content, real, m.end, style))
                                    => Untouched(m)

\* C17: every service detectServices finds in the output of substitute was
\* detected in the template and has no entry in the port map.
C17_RoundTrip ==
  output.op = "substitute"
    => \A k \in DOMAIN detectServicesFromTemplate(output.text, ext) :
         LET service == detectServicesFromTemplate(output.text, ext)[k]
         IN /\ \E j \in DOMAIN detectServicesFromTemplate(content, ext) :
                 detectServicesFromTemplate(content, ext)[j] = service
            /\ service.name \notin DOMAIN ports

\* The registry document holds the allocation of the given port to the pair.
Stored(f, port, project, service) ==
  \E i \in DOMAIN f.allocations :
    /\ f.allocations[i].port = port
    /\ f.allocations[i].project = project
    /\ f.allocations[i].service = service

\* C21: allocate probes the chosen port a second time only after the new
\* allocation has been saved and the lock released; and an allocate that
\* warns that its port is in use still succeeds, returns the port and leaves
\* the allocation stored.
C21_ReprobeAfterRelease ==
  [][/\ \A p \in Procs :
          (pc[p] # "reprobed" /\ pc'[p] = "reprobed")
            => /\ lock' # p
               /\ Stored(file', op'[p].port, op'[p].call.project,
                         op'[p].call.service)
     /\ (Ends("allocate") /\ last'.warned)
          => /\ last'.kind = "ok"
             /\ Stored(file', last'.value, last'.op.project, last'.op.service)]_vars

\* C22: a release that returns has removed from the document exactly the
\* allocation of (project, service), or with `all` exactly the allocations of
\* the project; it returns the number removed and leaves every other
\* allocation, in order, and every reservation as they were; no allocation of
\* the released pair is left, so that an allocate of the pair fails with
\* AlreadyAllocated only if the pair is in the document again.
C22_ReleaseFrame ==
  [][/\ (Ends("release") /\ last'.kind = "ok")
          => LET o == last'.op
                 released(a) == /\ a.project = o.project
                                /\ (o.all \/ a.service = o.service)
                 others == SelectSeq(file.allocations, LAMBDA a : ~released(a))
             IN /\ file'.allocations = others
                /\ last'.value = Len(file.allocations) - Len(others)
                /\ file'.reservations = file.reservations
                /\ \A i \in DOMAIN file'.allocations :
                     ~released(file'.allocations[i])
     /\ (Ends("allocate") /\ last'.kind = "AlreadyAllocated")
          => \E i \in DOMAIN file.allocations :
               /\ file.allocations[i].project = last'.op.project
               /\ file.allocations[i].service = last'.op.service]_vars

\* C22 witness: a release of one service has returned 1 and the project's
\* other allocation is still in the document.
C22_Witness ==
  /\ last.op.name = "release"
  /\ last.kind = "ok"
  /\ ~last.op.all
  /\ last.value = 1
  /\ \E i \in DOMAIN file.allocations :
       /\ file.allocations[i].project = last.op.project
       /\ file.allocations[i].service # last.op.service

\* C23: findAvailablePort returns the lowest port of [start, end] that is
\* neither excluded nor in use, none if there is no such port, and for
\* start > end it returns none and has probed no port.
C23_LowestFreePort ==
  scan.called
    => LET free == {port \in scan.start..scan.end :
                      port \notin scan.excluded /\ port \notin scan.live}
       IN /\ free = {} => scan.result = NoPort
          /\ free # {} => /\ scan.result \in free
                          /\ \A port \in free : scan.result <= port
          /\ scan.start > scan.end => scan.result = NoPort /\ scan.probed = {}

\* C23 witness: of the range 1..RangeLen+1 the first port is excluded and the
\* second is in use, and the scan has returned the third after probing the
\* second and the third.
C23_Witness ==
  /\ scan.called
  /\ scan.start = 1
  /\ scan.end = RangeLen + 1
  /\ scan.excluded = {1}
  /\ 2 \in scan.live
  /\ scan.result = 3
  /\ scan.probed = {2, 3}

\* C24: when no port of the type's range is in use, an allocate of that type
\* for a pair without allocation returns exactly the port that status reports
\* as `next` for the type on the document the allocate starts from, and it
\* fails with NoAvailablePorts exactly when that `next` is null.
C24_StatusNext ==
  [][(/\ Ends("allocate")
      /\ last'.kind \in {"ok", "NoAvailablePorts"}
      /\ last'.live = {})
       => /\ last'.kind = "ok" => getStatus(file)[last'.op.type].next = last'.value
          /\ last'.kind = "NoAvailablePorts"
               <=> getStatus(file)[last'.op.type].next = NoPort]_vars

\* C24 witness: with no port in use, an allocate of type "custom" has
\* returned the first port of its range; on the new document status shows no
\* `next` for "custom" (its other port is reserved) and port 1 for "api".
C24_Witness ==
  /\ last.op.name = "allocate"
  /\ last.op.type = "custom"
  /\ last.kind = "ok"
  /\ last.live = {}
  /\ last.value = Ranges["custom"].start
  /\ getStatus(file)["custom"].next = NoPort
  /\ getStatus(file)["api"].next = 1

\* C25: a lock-scoped operation that finishes, because its callback returned,
\* because its callback threw or because saving the registry failed, has
\* released the lock: the process that ends a call under the lock leaves the
\* lock free, and no process that is idle holds the lock.
C25_LockReleased ==
  [][/\ \A p \in Procs :
          (pc[p] = "locked" /\ pc'[p] = "idle") => lock' = NoHolder
     /\ \A p \in Procs : pc'[p] = "idle" => lock' # p]_vars

\* C25 witness: a reserve whose save failed has finished, the lock is free
\* and the document holds no reservation of its port.
C25_Witness ==
  /\ last.op.name = "reserve"
  /\ last.kind = "SaveFailed"
  /\ lock = NoHolder
  /\ last.op.port \notin ReservedPorts(file)

\* C26: every edit of substitute is the span of a placeholder of the original
\* text and is applied once at that position: the output is the original
\* with each edited span replaced by the edit's text and everything else
\* kept; of two occurrences of one placeholder the one inside a comment range
\* stays and the one outside is replaced; and the replacement text is put in
\* as it is, also when it reads as a placeholder itself.
C26_EditsByPosition ==
  output.op = "substitute"
    => LET edits == output.edits
           ranges == findCommentRanges(content, ext)
           edited(i) == \E k \in DOMAIN edits :
                          edits[k].start <= i /\ i < edits[k].end
           value(body) ==
             IF body = <<"project">> THEN projName
             ELSE IF Len(body) >= 3 /\ body[1] = "api" /\ body[2] = ":"
                       /\ SubSeq(body, 3, Len(body)) \in DOMAIN ports
             THEN <<ToString(ports[SubSeq(body, 3, Len(body))])>>
             ELSE <<"{devports", ":">> \o body \o <<"}">>
       IN /\ Len(output.text) = Len(content) + Shift(edits, Len(content) + 1)
          /\ \A k \in DOMAIN edits :
               /\ content[edits[k].start] = "{devports"
               /\ content[edits[k].end - 1] = "}"
               /\ \A j \in edits[k].start..(edits[k].end - 2) : content[j] # "}"
               /\ edits[k].text
                    = value(SubSeq(content, edits[k].start + 2, edits[k].end - 2))
               /\ SubSeq(output.text,
                         edits[k].start + Shift(edits, edits[k].start),
                         edits[k].start + Shift(edits, edits[k].start)
                           + Len(edits[k].text) - 1)
                    = edits[k].text
          /\ \A i \in DOMAIN content :
               ~edited(i) => output.text[i + Shift(edits, i)] = content[i]
          /\ \A i \in DOMAIN content :
               (content[i] = "{devports" /\ ~edited(i)
                  /\ \E j \in (i + 3)..Len(content) : content[j] = "}")
                 => \E k \in DOMAIN ranges :
                      ranges[k].start <= i /\ i < ranges[k].end

\* C26 witness: in a hash-comment file the text of two project markers with a
\* "#" between them has been rendered with the project name
\* "{devports:api:x}" and x mapped: the first marker is that name, unresolved,
\* the second stands unchanged in the comment.
C26_Witness ==
  /\ output.op = "substitute"
  /\ ext = "env"
  /\ projName = Placeholder("api", <<"x">>)
  /\ <<"x">> \in DOMAIN ports
  /\ content = <<"{devports", ":", "project", "}", "#",
                 "{devports", ":", "project", "}">>
  /\ output.text = Placeholder("api", <<"x">>)
                     \o <<"#", "{devports", ":", "project", "}">>

\* C27: when a render call ends with the failure of one of its
\* getOrAllocate calls, none of the allocations it created for its earlier
\* services is in the registry document.
C27_RenderAtomic ==
  [][\A p \in Procs :
       (render[p] # NoRender /\ render'[p] = NoRender /\ last'.kind # "ok")
         => \A service \in render[p].created :
              \A i \in DOMAIN file'.allocations :
                ~(/\ file'.allocations[i].project = render[p].project
                  /\ file'.allocations[i].service = service)]_vars

\* C28: every port getOrAllocate(p, s, t) returns lies in the configured range
\* of the type t it was called with.
C28_GetOrAllocateInRange ==
  [][(Ends("getOrAllocate") /\ last'.kind = "ok")
       => /\ last'.op.type \in Types
          /\ last'.value \in RangePorts(last'.op.type)]_vars

\* The end of the line that position i is on: the position of the next
\* newline, or one past the end of the text.
LineEnd(text, i) ==
  IF \E j \in i..Len(text) : text[j] = "\n"
  THEN Min({j \in i..Len(text) : text[j] = "\n"})
  ELSE Len(text) + 1

\* The services of the well-formed placeholders that stand outside the given
\* spans [from, to).
ServicesOutside(text, spans) ==
  {[name |-> SplitColon(m.body)[2], type |-> SplitColon(m.body)[1]] :
     m \in {ExecAll(text, 1)[i] : i \in
              {i \in DOMAIN ExecAll(text, 1) :
                 /\ Len(SplitColon(ExecAll(text, 1)[i].body)) = 2
                 /\ \A span \in spans :
                      ~(span[1] <= ExecAll(text, 1)[i].start
                          /\ ExecAll(text, 1)[i].end <= span[2])}}}

\* C29: a line that begins with the line-comment marker, no block comment
\* having been opened before it, is a comment whatever quotes the earlier
\* lines hold: a comment range covers the line, substitute touches no
\* placeholder on it and detectServices reports no service for a placeholder
\* on it.
C29_QuoteStatePerLine ==
  LET style == getCommentStyleForFile(ext)
      ranges == findCommentRanges(content, ext)
      matches == ExecAll(content, 1)
      lines == {i \in DOMAIN content :
                  /\ i = 1 \/ content[i - 1] = "\n"
                  /\ StartsWithAt(content, i, style.lineComment)
                  /\ \A k \in 1..(i - 1) :
                       ~StartsWithAt(content, k, style.blockStart)}
  IN /\ \A i \in lines :
          \E k \in DOMAIN ranges :
            ranges[k].start <= i /\ LineEnd(content, i) <= ranges[k].end
     /\ output.op = "substitute"
          => \A i \in lines : \A n \in DOMAIN matches :
               (i <= matches[n].start /\ matches[n].end <= LineEnd(content, i))
                 => Untouched(matches[n])
     /\ output.op = "detect"
          => \A n \in DOMAIN output.services :
               output.services[n]
                 \in ServicesOutside(content,
                                     {<<i, LineEnd(content, i)>> : i \in lines})

\* C30: for every comment style, a line-comment marker that has no quote and
\* no comment marker anywhere before it starts a comment range that runs to
\* the next newline (or the end of the text), and substitute touches no
\* placeholder inside that range; this includes the .vim style, whose marker
\* is the double quote.
C30_LineMarkerStartsComment ==
  LET style == getCommentStyleForFile(ext)
      ranges == findCommentRanges(content, ext)
      matches == ExecAll(content, 1)
      markers == {i \in DOMAIN content :
                    /\ StartsWithAt(content, i, style.lineComment)
                    /\ \A k \in 1..(i - 1) :
                         /\ content[k] \notin {"\"", "'"}
                         /\ ~OpensComment(content, k, style)}
  IN \A i \in markers :
       /\ ranges # <<>>
       /\ ranges[1] = [start |-> i, end |-> LineEnd(content, i)]
       /\ output.op = "substitute"
            => \A n \in DOMAIN matches :
                 (i <= matches[n].start /\ matches[n].end <= LineEnd(content, i))
                   => Untouched(matches[n])

\* C18: when a process has died holding the lock and the staleness threshold
\* has passed, a process that tries to acquire the lock gets it (the lock
\* does not stay with the dead holder), and a living holder completes its call
\* unless it dies itself.
C18_StaleLockReclaimed ==
  /\ \A p \in Procs :
       (pc[p] = "lock" /\ lock # NoHolder /\ pc[lock] = "crashed" /\ stale)
         ~> (lock # NoHolder /\ pc[lock] = "locked")
  /\ \A p \in Procs :
       (lock = p /\ pc[p] = "locked") ~> (pc[p] \in {"idle", "crashed"})

\* C18 witness: a living process holds the lock, loaded registry in hand,
\* while a process that died holding the lock is still dead.
C18_Witness ==
  \E p, q \in Procs :
    /\ pc[p] = "crashed"
    /\ lock = q
    /\ pc[q] = "locked"
    /\ reg[q] = file

\* C19: every write of the registry document is made by the process that
\* holds the lock, as the end of its callback; and the creation of a missing
\* document never replaces a document that exists.
C19_WritesUnderLock ==
  [][/\ file' # file
          => (lock # NoHolder /\ pc[lock] = "locked" /\ pc'[lock] # "locked")
     /\ \A p \in Procs :
          (pc[p] = "create" /\ pc'[p] = "lock" /\ file.exists) => file' = file]_vars

\* C20: a getOrAllocate call never fails with AlreadyAllocated, however the
\* lookups and the allocate steps of concurrent getOrAllocate calls interleave.
C20_ConcurrentGetOrAllocate ==
  [][Ends("getOrAllocate") => last'.kind # "AlreadyAllocated"]_vars

====
